---------------------------- MODULE Spec2Model ----------------------------
(***************************************************************************)
(* Model of the coordination layer of the camera monitoring system:        *)
(*   src/feeds.py           file-backed feeds (append / drain / peek)      *)
(*   src/image_server.py    status artifacts, force-update path            *)
(*   src/control_server.py  control protocol and inactivity monitor        *)
(*   src/ui.py              dashboard side of the feeds                    *)
(*                                                                         *)
(* Text is modelled as TLA+ strings, read character by character with      *)
(* SubSeq, so that stripping, splitting and prefix tests are computed the  *)
(* way the Python code computes them.                                      *)
(***************************************************************************)
EXTENDS Integers, Sequences, FiniteSets, TLC

VARIABLES
    files,   \* feeds/<name>.feed : [exists : BOOLEAN, data : STRING] per feed file
    ready,   \* set of file names present in images_ready
    src,     \* set of file names present in images_src
    ctl,     \* control server: position in main() and its locals
    img,     \* image server: position in main() and its locals
    ui,      \* dashboard / feed publisher and reader side
    trace    \* history of observable calls and their results

vars == <<files, ready, src, ctl, img, ui, trace>>

(***************************************************************************)
(* Bounds of the model.                                                    *)
(***************************************************************************)
MaxPending == 2     \* line terminators a feed file may hold before appends stop
MaxBulk == 2        \* messages in one append_messages call
MaxSent == 3        \* appends the racing writer performs in all
MaxRequests == 2    \* force-update requests the dashboard issues in all

(***************************************************************************)
(* Python str operations.                                                  *)
(***************************************************************************)
Ch(s, i) == SubSeq(s, i, i)

Whitespace == {" ", "\t", "\n", "\r"}

StartsWith(s, p) == Len(s) >= Len(p) /\ SubSeq(s, 1, Len(p)) = p

EndsWith(s, p) == Len(s) >= Len(p) /\ SubSeq(s, Len(s) - Len(p) + 1, Len(s)) = p

DropPrefix(s, n) == SubSeq(s, n + 1, Len(s))

\* s.rstrip("\n")
RECURSIVE RStripNL(_)
RStripNL(s) ==
    IF Len(s) > 0 /\ Ch(s, Len(s)) = "\n" THEN RStripNL(SubSeq(s, 1, Len(s) - 1)) ELSE s

RECURSIVE RStrip(_)
RStrip(s) ==
    IF Len(s) > 0 /\ Ch(s, Len(s)) \in Whitespace THEN RStrip(SubSeq(s, 1, Len(s) - 1)) ELSE s

RECURSIVE LStrip(_)
LStrip(s) ==
    IF Len(s) > 0 /\ Ch(s, 1) \in Whitespace THEN LStrip(SubSeq(s, 2, Len(s))) ELSE s

\* s.strip()
Strip(s) == LStrip(RStrip(s))

LowerCase == "abcdefghijklmnopqrstuvwxyz"
UpperCase == "ABCDEFGHIJKLMNOPQRSTUVWXYZ"

UpperCh(c) ==
    IF \E i \in 1..26 : Ch(LowerCase, i) = c
    THEN Ch(UpperCase, CHOOSE i \in 1..26 : Ch(LowerCase, i) = c)
    ELSE c

LowerCh(c) ==
    IF \E i \in 1..26 : Ch(UpperCase, i) = c
    THEN Ch(LowerCase, CHOOSE i \in 1..26 : Ch(UpperCase, i) = c)
    ELSE c

\* The characters of s from position i on, in upper case.
RECURSIVE UpperFrom(_, _)
UpperFrom(s, i) == IF i > Len(s) THEN "" ELSE UpperCh(Ch(s, i)) \o UpperFrom(s, i + 1)

\* s.upper()
Upper(s) == UpperFrom(s, 1)

\* The characters of s from position i on, in lower case.
RECURSIVE LowerFrom(_, _)
LowerFrom(s, i) == IF i > Len(s) THEN "" ELSE LowerCh(Ch(s, i)) \o LowerFrom(s, i + 1)

\* s.lower()
Lower(s) == LowerFrom(s, 1)

\* Index of the last occurrence at or before position i of the one-character
\* string c in s, 0 if none.
RECURSIVE RFindFrom(_, _, _)
RFindFrom(s, c, i) ==
    IF i < 1 THEN 0
    ELSE IF Ch(s, i) = c THEN i
    ELSE RFindFrom(s, c, i - 1)

\* Index of the last occurrence of the one-character string c in s, 0 if none.
RFind(s, c) == RFindFrom(s, c, Len(s))

\* Index of the first occurrence at or after position i of the one-character
\* string c in s, 0 if none.
RECURSIVE FindFrom(_, _, _)
FindFrom(s, c, i) ==
    IF i > Len(s) THEN 0
    ELSE IF Ch(s, i) = c THEN i
    ELSE FindFrom(s, c, i + 1)

\* Index of the first occurrence of the one-character string c in s, 0 if none.
Find(s, c) == FindFrom(s, c, 1)

Contains(s, c) == Find(s, c) # 0

\* s.rsplit(c, 1): one element when c does not occur in s, else two.
RSplit1(s, c) ==
    LET k == RFind(s, c)
    IN  IF k = 0 THEN <<s>> ELSE <<SubSeq(s, 1, k - 1), SubSeq(s, k + 1, Len(s))>>

\* os.path.splitext(name) for a bare file name: <<stem, ext>>; the extension starts
\* at the last dot, unless that dot only follows leading dots.
AllDots(s) == \A i \in 1..Len(s) : Ch(s, i) = "."

SplitExt(name) ==
    LET k == RFind(name, ".")
    IN  IF k = 0 \/ AllDots(SubSeq(name, 1, k - 1)) THEN <<name, "">>
        ELSE <<SubSeq(name, 1, k - 1), SubSeq(name, k, Len(name))>>

\* Occurrences of x in the sequence q.
RECURSIVE Count(_, _)
Count(q, x) ==
    IF q = <<>> THEN 0 ELSE (IF Head(q) = x THEN 1 ELSE 0) + Count(Tail(q), x)


(***************************************************************************)
(* feeds.py: the feed files and the operations on them.                    *)
(***************************************************************************)
CONTROL_FEED == "control"
POWER_FEED == "POWER"
FORCE_REQUEST_FEED == "force_request"
FORCE_SERVED_FEED == "force_served"

FeedFiles == {CONTROL_FEED, POWER_FEED, FORCE_REQUEST_FEED, FORCE_SERVED_FEED}

NoFile == [exists |-> FALSE, data |-> ""]

NoFeeds == [f \in FeedFiles |-> NoFile]

\* _feed_path: the file behind a feed name is named by the stripped name; a name
\* that strips to nothing raises ValueError.
FeedPath(feed_name) == Strip(feed_name)

FeedNameRaises(feed_name) == FeedPath(feed_name) = ""

\* A write that puts the new line in front of the stored ones.
WriteLine_Prepend(data, message) == RStripNL(message) \o "\n" \o data

\* handle.write(message.rstrip("\n") + "\n") on a handle opened for append.
WriteLine(data, message) == data \o RStripNL(message) \o "\n"

RECURSIVE WriteLines(_, _)
WriteLines(data, messages) ==
    IF messages = <<>> THEN data
    ELSE WriteLines(WriteLine(data, Head(messages)), Tail(messages))

\* The lines of the text from position i on, cut after every line terminator.  The
\* position k of the next terminator is found once for each line.
RECURSIVE LinesFrom(_, _)
LinesFrom(data, i) ==
    IF i > Len(data) THEN <<>>
    ELSE CHOOSE lines \in
            {IF k = 0 THEN <<SubSeq(data, i, Len(data))>>
             ELSE <<SubSeq(data, i, k)>> \o LinesFrom(data, k + 1) :
                k \in {FindFrom(data, "\n", i)}} : TRUE

\* handle.readlines(): the text cut after every line terminator.
ReadLines(data) == LinesFrom(data, 1)

\* A read that strips the lines and keeps the blank ones.
RECURSIVE StripNonBlank_KeepBlank(_)
StripNonBlank_KeepBlank(lines) ==
    IF lines = <<>> THEN <<>>
    ELSE <<Strip(Head(lines))>> \o StripNonBlank_KeepBlank(Tail(lines))

\* [line.strip() for line in handle.readlines() if line.strip()]
RECURSIVE StripNonBlank(_)
StripNonBlank(lines) ==
    IF lines = <<>> THEN <<>>
    ELSE IF Strip(Head(lines)) = "" THEN StripNonBlank(Tail(lines))
    ELSE <<Strip(Head(lines))>> \o StripNonBlank(Tail(lines))

Messages(data) == StripNonBlank(ReadLines(data))

\* The files after append_message(feed_name, message): open(path, "a") creates the
\* file when it is missing.
AfterAppend(fs, feed_name, message) ==
    [fs EXCEPT ![FeedPath(feed_name)] =
        [exists |-> TRUE, data |-> WriteLine(@.data, message)]]

AfterAppendAll(fs, feed_name, messages) ==
    [fs EXCEPT ![FeedPath(feed_name)] =
        [exists |-> TRUE, data |-> WriteLines(@.data, messages)]]

\* What consume_messages / peek_messages return: [] when the file is missing.
Pending(fs, feed_name) ==
    IF fs[FeedPath(feed_name)].exists THEN Messages(fs[FeedPath(feed_name)].data) ELSE <<>>

\* A drain that forgets to truncate the file.
AfterConsume_NoTruncate(fs, feed_name) == fs

\* The files after consume_messages: handle.seek(0); handle.truncate() on an
\* existing file, nothing when it is missing.
AfterConsume(fs, feed_name) ==
    IF fs[FeedPath(feed_name)].exists
    THEN [fs EXCEPT ![FeedPath(feed_name)] = [exists |-> TRUE, data |-> ""]]
    ELSE fs

\* The files after clear_feed: path.write_text("") on an existing file.
AfterClear(fs, feed_name) ==
    IF fs[FeedPath(feed_name)].exists
    THEN [fs EXCEPT ![FeedPath(feed_name)] = [exists |-> TRUE, data |-> ""]]
    ELSE fs

\* Line terminators stored in a feed file.
RECURSIVE Terminators(_)
Terminators(data) ==
    IF data = "" THEN 0
    ELSE (IF Ch(data, 1) = "\n" THEN 1 ELSE 0) + Terminators(SubSeq(data, 2, Len(data)))


(***************************************************************************)
(* Values of the parts of the state a specification does not use.          *)
(***************************************************************************)
CtlOff == [pc |-> "off"]
ImgOff == [pc |-> "off"]
UiOff == [pc |-> "off"]

\* The history keeps the previous call and the last one.
Push(t, call) == IF t = <<>> THEN <<call>> ELSE <<t[Len(t)], call>>

Last(t) == t[Len(t)]

(***************************************************************************)
(* SpecFeed: one client calling the feed API, one call at a time.          *)
(***************************************************************************)
\* Feed names a caller passes: a plain name, the same name padded, blank names.
FeedNames == {"control", " control ", "", " "}

\* Messages a caller passes: plain, blank, with a trailing terminator, padded,
\* and with a line break inside.
FeedMessages == {"a", "b", "", " ", "a\n", " a", "a\nb"}

BulkMessages == {"a", "b", ""}

BulkInputs == UNION {[1..n -> BulkMessages] : n \in 0..MaxBulk}

Call(op, feed_name, arg, raised, result, before) ==
    [op |-> op, path |-> FeedPath(feed_name), arg |-> arg, raised |-> raised,
     result |-> result, before |-> before]

\* A call that swallows the error of a blank feed name.
Raised_Swallowed(op) == Call(op, "", "", FALSE, <<>>, 0)

Raised(op) == Call(op, "", "", TRUE, <<>>, 0)

Fits(data) == Terminators(data) <= MaxPending

InitFeed ==
    /\ files = NoFeeds
    /\ ready = {}
    /\ src = {}
    /\ ctl = CtlOff
    /\ img = ImgOff
    /\ ui = UiOff
    /\ trace = <<>>

ApiAppendMessage(feed_name, message) ==
    /\ IF FeedNameRaises(feed_name)
       THEN /\ files' = files
            /\ trace' = Push(trace, Raised("append_message"))
       ELSE /\ Fits(WriteLine(files[FeedPath(feed_name)].data, message))
            /\ files' = AfterAppend(files, feed_name, message)
            /\ trace' = Push(trace, Call("append_message", feed_name, message, FALSE, <<>>,
                                         Count(Pending(files, feed_name), message)))
    /\ UNCHANGED <<ready, src, ctl, img, ui>>

ApiAppendMessages(feed_name, messages) ==
    /\ IF FeedNameRaises(feed_name)
       THEN /\ files' = files
            /\ trace' = Push(trace, Raised("append_messages"))
       ELSE /\ Fits(WriteLines(files[FeedPath(feed_name)].data, messages))
            /\ files' = AfterAppendAll(files, feed_name, messages)
            /\ trace' = Push(trace, Call("append_messages", feed_name, messages, FALSE, <<>>, 0))
    /\ UNCHANGED <<ready, src, ctl, img, ui>>

ApiConsumeMessages(feed_name) ==
    /\ IF FeedNameRaises(feed_name)
       THEN /\ files' = files
            /\ trace' = Push(trace, Raised("consume_messages"))
       ELSE /\ files' = AfterConsume(files, feed_name)
            /\ trace' = Push(trace, Call("consume_messages", feed_name, "", FALSE,
                                         Pending(files, feed_name), 0))
    /\ UNCHANGED <<ready, src, ctl, img, ui>>

\* A peek that empties the feed it reads.
ApiPeekMessages_Draining(feed_name) ==
    /\ IF FeedNameRaises(feed_name)
       THEN /\ files' = files
            /\ trace' = Push(trace, Raised("peek_messages"))
       ELSE /\ files' = AfterConsume(files, feed_name)
            /\ trace' = Push(trace, Call("peek_messages", feed_name, "", FALSE,
                                         Pending(files, feed_name), 0))
    /\ UNCHANGED <<ready, src, ctl, img, ui>>

ApiPeekMessages(feed_name) ==
    /\ files' = files
    /\ IF FeedNameRaises(feed_name)
       THEN trace' = Push(trace, Raised("peek_messages"))
       ELSE trace' = Push(trace, Call("peek_messages", feed_name, "", FALSE,
                                      Pending(files, feed_name), 0))
    /\ UNCHANGED <<ready, src, ctl, img, ui>>

ApiClearFeed(feed_name) ==
    /\ IF FeedNameRaises(feed_name)
       THEN /\ files' = files
            /\ trace' = Push(trace, Raised("clear_feed"))
       ELSE /\ files' = AfterClear(files, feed_name)
            /\ trace' = Push(trace, Call("clear_feed", feed_name, "", FALSE, <<>>, 0))
    /\ UNCHANGED <<ready, src, ctl, img, ui>>

NextFeed ==
    \/ \E f \in FeedNames, m \in FeedMessages : ApiAppendMessage(f, m)
    \/ \E f \in FeedNames, ms \in BulkInputs : ApiAppendMessages(f, ms)
    \/ \E f \in FeedNames : ApiConsumeMessages(f)
    \/ \E f \in FeedNames : ApiPeekMessages(f)
    \/ \E f \in FeedNames : ApiClearFeed(f)

SpecFeed == InitFeed /\ [][NextFeed]_vars


(***************************************************************************)
(* Claims about the feed API (SpecFeed).                                   *)
(***************************************************************************)
AppendThenConsume ==
    /\ Len(trace) = 2
    /\ trace[1].op = "append_message" /\ ~trace[1].raised
    /\ trace[2].op = "consume_messages" /\ ~trace[2].raised
    /\ trace[1].path = trace[2].path

ConsumeThenConsume ==
    /\ Len(trace) = 2
    /\ trace[1].op = "consume_messages" /\ ~trace[1].raised
    /\ trace[2].op = "consume_messages" /\ ~trace[2].raised
    /\ trace[1].path = trace[2].path

\* A message that is one non-blank line with no surrounding whitespace.
PlainMessage(m) ==
    /\ m # ""
    /\ Strip(m) = m
    /\ ~Contains(m, "\n")
    /\ ~Contains(m, "\r")

\* C1 (as stated): for any feed and any message m, append_message(feed, m) directly
\* followed by consume_messages(feed) returns a sequence holding m exactly once, and
\* a consume_messages directly after a consume_messages returns the empty sequence.
C1_AnyMessageDrainedOnce ==
    /\ AppendThenConsume => Count(trace[2].result, trace[1].arg) = 1
    /\ ConsumeThenConsume => trace[2].result = <<>>

\* C1 (amended): for any feed and any message m that is a single non-blank line
\* without surrounding whitespace, append_message(feed, m) directly followed by
\* consume_messages(feed) returns a sequence holding m exactly once more than the
\* feed held it before the append (exactly once when it was not pending), and a
\* consume_messages directly after a consume_messages returns the empty sequence.
C1_PlainMessageDrainedOnce ==
    /\ (AppendThenConsume /\ PlainMessage(trace[1].arg))
          => Count(trace[2].result, trace[1].arg) = trace[1].before + 1
    /\ ConsumeThenConsume => trace[2].result = <<>>

\* C1 witness: a plain message was appended to a feed that did not hold it and the
\* drain that followed returned it.
C1_Witness ==
    /\ AppendThenConsume
    /\ PlainMessage(trace[1].arg)
    /\ trace[1].before = 0
    /\ Count(trace[2].result, trace[1].arg) = 1
    /\ Len(trace[2].result) = 2


\* The call a step of the feed API has just made.
Called == trace'[Len(trace')]

\* What the drain of a feed would return before and after the step at hand.
Held == Pending(files, Called.path)
HeldAfter == Pending(files', Called.path)

\* Every message of the call at hand is a single non-blank line without surrounding
\* whitespace.
PlainCall ==
    IF Called.op = "append_message" THEN PlainMessage(Called.arg)
    ELSE \A k \in 1..Len(Called.arg) : PlainMessage(Called.arg[k])

\* C13 as stated: a drain returns the messages in the order in which they were
\* appended: each append_message / append_messages puts its messages, as given, at
\* the end of what the feed holds, and consume_messages returns what the feed holds.
C13_DrainInAppendOrder ==
    [][/\ (Called.op = "append_message" /\ ~Called.raised) =>
             HeldAfter = Held \o <<Called.arg>>
       /\ (Called.op = "append_messages" /\ ~Called.raised) =>
             HeldAfter = Held \o Called.arg
       /\ (Called.op = "consume_messages" /\ ~Called.raised) =>
             Called.result = Held /\ HeldAfter = <<>>]_vars

\* C13 amended: the same for messages that are each a single non-blank line without
\* surrounding whitespace.
C13_PlainDrainInAppendOrder ==
    [][/\ (Called.op = "append_message" /\ ~Called.raised /\ PlainCall) =>
             HeldAfter = Held \o <<Called.arg>>
       /\ (Called.op = "append_messages" /\ ~Called.raised /\ PlainCall) =>
             HeldAfter = Held \o Called.arg
       /\ (Called.op = "consume_messages" /\ ~Called.raised) =>
             Called.result = Held /\ HeldAfter = <<>>]_vars

\* C13 witness: b was appended before a, and the drain returned b before a.
C13_Witness ==
    /\ Len(trace) = 2
    /\ trace[1].op = "append_message" /\ trace[1].arg = "a" /\ ~trace[1].raised
    /\ trace[2].op = "consume_messages" /\ trace[2].path = trace[1].path
    /\ trace[2].result = <<"b", "a">>

PeekThenConsume ==
    /\ Len(trace) = 2
    /\ trace[1].op = "peek_messages" /\ ~trace[1].raised
    /\ trace[2].op = "consume_messages" /\ ~trace[2].raised
    /\ trace[1].path = trace[2].path

\* C14: peek_messages does not change the feed: it leaves every feed file as it is,
\* and a consume_messages that directly follows it on the same feed returns the same
\* sequence, whatever the feed holds.
C14_PeekNonDestructive ==
    [][/\ Called.op = "peek_messages" => files' = files
       /\ PeekThenConsume' => trace'[1].result = trace'[2].result]_vars

\* C14 witness: a peek and the drain after it both returned the two pending messages.
C14_Witness ==
    /\ PeekThenConsume
    /\ trace[1].result = <<"a", "b">>
    /\ trace[2].result = <<"a", "b">>

\* C15: each of the five feed operations fails when the feed name is empty or blank,
\* and the failing call changes no feed and creates none.
C15_BlankFeedNameRaises ==
    [][Called.path = "" => Called.raised /\ files' = files]_vars

\* C15 witness: clear_feed and consume_messages were called with a blank name, both
\* raised, and no feed exists.
C15_Witness ==
    /\ Len(trace) = 2
    /\ trace[1].op = "clear_feed" /\ trace[1].raised
    /\ trace[2].op = "consume_messages" /\ trace[2].raised
    /\ files = NoFeeds

\* The lines of a stored text that are blank.
BlankLines(data) ==
    {k \in 1..Len(ReadLines(data)) : Strip(ReadLines(data)[k]) = ""}

\* No call of the last two returned a blank message.
NoBlankReturned ==
    \A i \in 1..Len(trace) :
        trace[i].op \in {"consume_messages", "peek_messages"} =>
            \A k \in 1..Len(trace[i].result) : Strip(trace[i].result[k]) # ""

\* C18 as stated: no feed stores a blank line, and consume_messages / peek_messages
\* return no blank message.
C18_NoBlankStoredOrReturned ==
    /\ \A f \in FeedFiles : BlankLines(files[f].data) = {}
    /\ NoBlankReturned

\* C18 amended: consume_messages / peek_messages return no blank message, whatever
\* was appended; the stored text itself may hold blank lines.
C18_NoBlankReturned == NoBlankReturned

\* C18 witness: a whitespace-only message was appended and is stored as a blank
\* line, and the peek that followed returned the one real message only.
C18_Witness ==
    /\ Len(trace) = 2
    /\ trace[1].op = "append_message" /\ trace[1].arg = " " /\ ~trace[1].raised
    /\ trace[2].op = "peek_messages" /\ trace[2].path = trace[1].path
    /\ trace[2].result = <<"a">>
    /\ BlankLines(files[trace[1].path].data) # {}


(***************************************************************************)
(* SpecRace: a process draining a feed while another appends to it, at the *)
(* granularity of their file operations.  The writer is the dashboard's    *)
(* request_force_update (ui.py), the reader the consume_messages call of   *)
(* process_force_requests (image_server.py); the two are separate          *)
(* processes and feeds.py takes no lock.                                   *)
(***************************************************************************)
RaceMessages == {"FORCE_UPDATE_CAM_a", "FORCE_UPDATE_CAM_b"}

NoneSent == [m \in RaceMessages |-> 0]

\* Occurrences of each message of RaceMessages in a drained sequence, added to n.
Tally(n, drained) == [m \in RaceMessages |-> n[m] + Count(drained, m)]

Total(n) == n["FORCE_UPDATE_CAM_a"] + n["FORCE_UPDATE_CAM_b"]

InitRace ==
    /\ files = NoFeeds
    /\ ready = {}
    /\ src = {}
    /\ ctl = CtlOff
    /\ img = [pc |-> "idle", lines |-> <<>>]
    /\ ui = [pc |-> "idle", message |-> ""]
    /\ trace = [sent |-> NoneSent, got |-> NoneSent]

\* append_message, path.open("a"): the file exists from here on.
RaceAppendOpen(message) ==
    /\ ui.pc = "idle"
    /\ Total(trace.sent) < MaxSent
    /\ files' = [files EXCEPT ![FORCE_REQUEST_FEED].exists = TRUE]
    /\ ui' = [pc |-> "opened", message |-> message]
    /\ UNCHANGED <<ready, src, ctl, img, trace>>

\* append_message, handle.write and the close that flushes it: the line goes to the
\* end of the file as it is now.
RaceAppendWrite ==
    /\ ui.pc = "opened"
    /\ files' = [files EXCEPT ![FORCE_REQUEST_FEED].data = WriteLine(@, ui.message)]
    /\ trace' = [trace EXCEPT !.sent = Tally(@, <<ui.message>>)]
    /\ ui' = [pc |-> "idle", message |-> ""]
    /\ UNCHANGED <<ready, src, ctl, img>>

\* consume_messages, path.exists() and path.open("r+"): a missing file returns [].
RaceConsumeOpen ==
    /\ img.pc = "idle"
    /\ img' = IF files[FORCE_REQUEST_FEED].exists THEN [img EXCEPT !.pc = "opened"] ELSE img
    /\ UNCHANGED <<files, ready, src, ctl, ui, trace>>

\* consume_messages, handle.readlines().
RaceConsumeRead ==
    /\ img.pc = "opened"
    /\ img' = [pc |-> "read", lines |-> Pending(files, FORCE_REQUEST_FEED)]
    /\ UNCHANGED <<files, ready, src, ctl, ui, trace>>

\* consume_messages, handle.seek(0); handle.truncate(); return lines.
RaceConsumeTruncate ==
    /\ img.pc = "read"
    /\ files' = AfterConsume(files, FORCE_REQUEST_FEED)
    /\ trace' = [trace EXCEPT !.got = Tally(@, img.lines)]
    /\ img' = [pc |-> "idle", lines |-> <<>>]
    /\ UNCHANGED <<ready, src, ctl, ui>>

NextRace ==
    \/ \E m \in RaceMessages : RaceAppendOpen(m)
    \/ RaceAppendWrite
    \/ RaceConsumeOpen
    \/ RaceConsumeRead
    \/ RaceConsumeTruncate

SpecRace == InitRace /\ [][NextRace]_vars

\* C2: when one process drains a feed while another appends X to it, X is never
\* lost under any interleaving of their file steps: whenever neither call is in
\* progress, every message appended so far has been returned by a drain or is still
\* pending in the feed for a later drain.
C2_ConcurrentAppendNeverLost ==
    (img.pc = "idle" /\ ui.pc = "idle") =>
        \A m \in RaceMessages :
            trace.sent[m] = trace.got[m] + Count(Pending(files, FORCE_REQUEST_FEED), m)


(***************************************************************************)
(* The status artifacts: file names of images_ready and their grammar.     *)
(***************************************************************************)
ImageExts == {".jpg", ".jpeg", ".png"}

Verdicts == {"YES", "NO"}

\* A parser's result for a name outside the grammar (None).
NotParsed == <<>>

\* control_server._parse_status_filename; ui._parse_ready_filename is the same code.
ParseStatusFilename(filename) ==
    LET stem == SplitExt(filename)[1]
        ext == SplitExt(filename)[2]
        parts == RSplit1(stem, "_")
    IN  IF Lower(ext) \notin ImageExts THEN NotParsed
        ELSE IF ~Contains(stem, "_") THEN NotParsed
        ELSE IF ~StartsWith(parts[1], "CAM_") THEN NotParsed
        ELSE IF Upper(parts[2]) \notin Verdicts THEN NotParsed
        ELSE <<parts[1], Upper(parts[2])>>

\* image_server._parse_ready_filename
ParseReadyFilename(filename) ==
    LET stem == SplitExt(filename)[1]
        ext == SplitExt(filename)[2]
        parts == RSplit1(stem, "_")
    IN  IF Lower(ext) \notin ImageExts THEN NotParsed
        ELSE IF ~Contains(stem, "_") THEN NotParsed
        ELSE IF Upper(parts[2]) \notin Verdicts THEN NotParsed
        ELSE IF ~StartsWith(parts[1], "CAM_") THEN NotParsed
        ELSE <<parts[1], Upper(parts[2])>>

\* The names the artifacts of the modelled cameras take, and both parsers tabulated
\* over them: a name of the table is looked up, any other name is parsed.
ReadyNames ==
    {c \o "_" \o v \o ".jpg" : c \in {"CAM_a", "CAM_b", "CAM_c", "CAM_9"}, v \in {"YES", "NO"}}

ParsedStatus == [f \in ReadyNames |-> ParseStatusFilename(f)]

ParsedReady == [f \in ReadyNames |-> ParseReadyFilename(f)]

StatusOf(filename) ==
    IF filename \in ReadyNames THEN ParsedStatus[filename] ELSE ParseStatusFilename(filename)

ReadyOf(filename) ==
    IF filename \in ReadyNames THEN ParsedReady[filename] ELSE ParseReadyFilename(filename)

\* The dictionaries get_camera_status / discover_cameras can build from a directory:
\* one entry per camera id with a parsable file; when several files name the same
\* camera the one os.listdir yields last wins, and that order is arbitrary.
Listings(dir) ==
    LET parsed == {StatusOf(f) : f \in dir} \ {NotParsed}
        ids == {e[1] : e \in parsed}
    IN  {st \in [ids -> Verdicts] : \A c \in ids : <<c, st[c]>> \in parsed}

\* A destination name that leaves the verdict out.
DestinationName_NoStatus(camera_id, status) == camera_id \o ".jpg"

\* _write_ready_image: destination_name = f"{camera_id}_{status}.jpg"
DestinationName(camera_id, status) == camera_id \o "_" \o status \o ".jpg"

\* A cleanup that finds nothing to remove.
ExistingReadyFiles_None(dir, camera_id) == {}

\* _remove_existing_ready_file: the entries it tries to remove.
ExistingReadyFiles(dir, camera_id) ==
    {f \in dir : ReadyOf(f) # NotParsed /\ ReadyOf(f)[1] = camera_id}

\* A source lookup that takes any image, whatever its stem.
SourcesFor_AnyImage(dir, cam_id) == {f \in dir : Lower(SplitExt(f)[2]) \in ImageExts}

\* process_force_requests, lines 213-221: the files of images_src that can be picked
\* as the source image of cam_id (the first match in os.listdir order).
SourcesFor(dir, cam_id) ==
    {f \in dir : Lower(SplitExt(f)[2]) \in ImageExts /\ SplitExt(f)[1] = cam_id}

\* process_force_requests, lines 197-209: the camera id of a request the loop goes
\* on with, "" for a request it skips.
RequestCamId(req) ==
    LET cam_id == Strip(DropPrefix(req, Len("FORCE_UPDATE_")))
    IN  IF ~StartsWith(req, "FORCE_UPDATE_") THEN ""
        ELSE IF cam_id = "" THEN ""
        ELSE IF ~StartsWith(cam_id, "CAM_") THEN ""
        ELSE cam_id


(***************************************************************************)
(* SpecImage: the force-update path of the image server, step by step,     *)
(* with the dashboard issuing requests and both readers of images_ready    *)
(* (control server, dashboard) listing it at any moment.  os.remove and    *)
(* shutil.copy2 may fail; the code catches and logs both.                  *)
(***************************************************************************)
\* images_src as the cameras left it: CAM_9 has no image.
SourceDir == {"CAM_a.jpg", "CAM_b.png"}

\* Camera ids the dashboard asks a force update for.
RequestIds == {"CAM_a", "CAM_b", "CAM_9"}

\* Outcomes of shutil.copy2: done, raised before the destination was created,
\* raised after it was created.
CopyOutcomes == {"copied", "failed_before_create", "failed_after_create"}

ImgIdle == [pc |-> "poll", requests |-> <<>>, i |-> 0, cam |-> "", status |-> "",
            todo |-> {}, had |-> FALSE, clean |-> TRUE]

NeverWritten == [c \in RequestIds |-> "never"]

NothingSeen == [by |-> "", during |-> "", statuses |-> <<>>]

InitImage ==
    /\ files = NoFeeds
    /\ ready = {}
    /\ src = SourceDir
    /\ ctl = CtlOff
    /\ img = ImgIdle
    /\ ui = [pending_force_updates |-> {}]
    /\ trace = [requested |-> 0, last |-> NeverWritten, removeFailed |-> FALSE,
                seen |-> NothingSeen, copy |-> ""]

\* Dashboard.request_force_update
UiRequestForceUpdate(camera_id) ==
    /\ trace.requested < MaxRequests
    /\ ui' = [ui EXCEPT !.pending_force_updates = @ \cup {camera_id}]
    /\ files' = AfterAppend(files, FORCE_REQUEST_FEED, "FORCE_UPDATE_" \o camera_id)
    /\ trace' = [trace EXCEPT !.requested = @ + 1]
    /\ UNCHANGED <<ready, src, ctl, img>>

\* The loop of process_force_requests moves to the next request, or returns.
NextRequest(st) ==
    IF st.i < Len(st.requests)
    THEN [ImgIdle EXCEPT !.pc = "request", !.requests = st.requests, !.i = st.i + 1]
    ELSE ImgIdle

\* process_force_requests, line 192: requests = consume_messages(FORCE_REQUEST_FEED)
ImgConsume ==
    /\ img.pc = "poll"
    /\ files' = AfterConsume(files, FORCE_REQUEST_FEED)
    /\ img' = NextRequest([ImgIdle EXCEPT !.requests = Pending(files, FORCE_REQUEST_FEED)])
    /\ UNCHANGED <<ready, src, ctl, ui, trace>>

\* A loop body that skips every request.
RequestDropped_Always(req, dir) == TRUE

\* Whether the loop body skips the request: unrecognised, malformed, or no source.
RequestDropped(req, dir) == RequestCamId(req) = "" \/ SourcesFor(dir, RequestCamId(req)) = {}

\* process_force_requests, lines 196-225: a request the loop skips (continue).
ImgDropRequest ==
    /\ img.pc = "request"
    /\ RequestDropped(img.requests[img.i], src)
    /\ img' = NextRequest(img)
    /\ UNCHANGED <<files, ready, src, ctl, ui, trace>>

\* process_force_requests, lines 196-232: the source is found, the Inference
\* Provider gives a verdict, and _write_ready_image lists what it has to remove.
ImgAcceptRequest(status) ==
    /\ img.pc = "request"
    /\ ~RequestDropped(img.requests[img.i], src)
    /\ LET cam_id == RequestCamId(img.requests[img.i])
           todo == ExistingReadyFiles(ready, cam_id)
       IN  img' = [img EXCEPT !.pc = IF todo = {} THEN "copy" ELSE "remove",
                              !.cam = cam_id, !.status = status, !.todo = todo,
                              !.had = (todo # {}), !.clean = TRUE]
    /\ UNCHANGED <<files, ready, src, ctl, ui, trace>>

\* _remove_existing_ready_file, lines 111-115: os.remove of one matching entry, which
\* may raise OSError (logged, the entry stays).
ImgRemove(entry, removed) ==
    /\ img.pc = "remove"
    /\ entry \in img.todo
    /\ ready' = IF removed THEN ready \ {entry} ELSE ready
    /\ img' = [img EXCEPT !.todo = @ \ {entry},
                          !.pc = IF img.todo = {entry} THEN "copy" ELSE "remove",
                          !.clean = @ /\ removed]
    /\ trace' = [trace EXCEPT !.removeFailed = @ \/ ~removed]
    /\ UNCHANGED <<files, src, ctl, ui>>

\* _write_ready_image, lines 128-131: shutil.copy2, whose exception is logged.
ImgCopy(outcome) ==
    /\ img.pc = "copy"
    /\ ready' = IF outcome = "failed_before_create" THEN ready
                ELSE ready \cup {DestinationName(img.cam, img.status)}
    /\ img' = [img EXCEPT !.pc = "serve", !.clean = @ /\ outcome = "copied"]
    /\ trace' = [trace EXCEPT !.last[img.cam] =
                    IF img.clean /\ outcome = "copied" THEN "clean" ELSE "faulty",
                                !.copy = outcome]
    /\ UNCHANGED <<files, src, ctl, ui>>

\* process_force_requests, line 233: append_message(FORCE_SERVED_FEED, ...)
ImgServe ==
    /\ img.pc = "serve"
    /\ files' = AfterAppend(files, FORCE_SERVED_FEED, "UPDATED_" \o img.cam)
    /\ img' = NextRequest(img)
    /\ UNCHANGED <<ready, src, ctl, ui, trace>>

\* The camera whose artifact is being replaced right now, "" if none is or if it
\* had no artifact when the replacement began.
Replacing == IF img.pc \in {"remove", "copy"} /\ img.had THEN img.cam ELSE ""

\* control_server.get_camera_status
CtlGetCameraStatus ==
    /\ \E st \in Listings(ready) :
          trace' = [trace EXCEPT !.seen =
                       [by |-> "control_server", during |-> Replacing, statuses |-> st]]
    /\ UNCHANGED <<files, ready, src, ctl, img, ui>>

\* ui.discover_cameras
UiDiscoverCameras ==
    /\ \E st \in Listings(ready) :
          trace' = [trace EXCEPT !.seen =
                       [by |-> "dashboard", during |-> Replacing, statuses |-> st]]
    /\ UNCHANGED <<files, ready, src, ctl, img, ui>>

NextImage ==
    \/ \E c \in RequestIds : UiRequestForceUpdate(c)
    \/ ImgConsume
    \/ ImgDropRequest
    \/ \E v \in Verdicts : ImgAcceptRequest(v)
    \/ \E e \in ready, ok \in BOOLEAN : ImgRemove(e, ok)
    \/ \E o \in CopyOutcomes : ImgCopy(o)
    \/ ImgServe
    \/ CtlGetCameraStatus
    \/ UiDiscoverCameras

SpecImage == InitImage /\ [][NextImage]_vars


(***************************************************************************)
(* Claims about the status artifacts and the force path (SpecImage).       *)
(***************************************************************************)
\* The artifacts of a camera as the readers see them.
Artifacts(c) ==
    {f \in ready : ParseStatusFilename(f) # NotParsed /\ ParseStatusFilename(f)[1] = c}

\* _write_ready_image is between its first removal and the end of its copy for c.
Writing(c) == img.pc \in {"remove", "copy"} /\ img.cam = c

\* Every listing reports c, and all listings report the same verdict for it.
OneVerdict(c) ==
    /\ \A st \in Listings(ready) : c \in DOMAIN st
    /\ Cardinality({st[c] : st \in Listings(ready)}) = 1

C4_AtMostOneArtifact ==
    ~trace.removeFailed => \A c \in RequestIds : Cardinality(Artifacts(c)) <= 1

\* C4 witness: between the removal of a camera's old artifact and the copy of the
\* new one.
C4_Witness ==
    /\ img.pc = "copy"
    /\ img.had
    /\ ~trace.removeFailed
    /\ Artifacts(img.cam) = {}

\* C5: a status listing by the control server or the dashboard taken while
\* _write_ready_image replaces the artifact of a camera that already had one shows
\* that camera (with its old or its new verdict), never as missing.
C5_ReplacementAtomicForReaders ==
    trace.seen.during # "" => trace.seen.during \in DOMAIN trace.seen.statuses

\* A request FORCE_UPDATE_<camera_id> whose camera has no image in images_src.
NoSourceRequest(req) ==
    /\ StartsWith(req, "FORCE_UPDATE_")
    /\ ~\E f \in src :
          /\ SplitExt(f)[1] = DropPrefix(req, Len("FORCE_UPDATE_"))
          /\ Lower(SplitExt(f)[2]) \in ImageExts

\* C9: a FORCE_UPDATE_<camera_id> request whose camera has no matching source image
\* makes process_force_requests append nothing to force_served and create, remove
\* or replace no artifact, and the loop goes on with the next request of the drain.
C9_NoSourceRequestDropped ==
    [][(img.pc = "request" /\ NoSourceRequest(img.requests[img.i])) =>
          /\ files'[FORCE_SERVED_FEED] = files[FORCE_SERVED_FEED]
          /\ ready' = ready
          /\ (img' # img => img' = NextRequest(img))]_vars

\* C9 witness: the request for CAM_9 was dropped and the request after it in the
\* same drain has been processed up to its served message.
C9_Witness ==
    /\ img.pc = "serve"
    /\ img.i = 2
    /\ img.requests[1] = "FORCE_UPDATE_CAM_9"
    /\ Artifacts("CAM_9") = {}
    /\ ~files[FORCE_SERVED_FEED].exists

\* C10: whenever process_force_requests appends UPDATED_<camera_id> to force_served,
\* an artifact of that camera carrying the verdict just computed exists in the ready
\* store at that moment, also when the copy step can fail.
C10_ServedOnlyAfterRefresh ==
    [][files'[FORCE_SERVED_FEED] # files[FORCE_SERVED_FEED] =>
          DestinationName(img.cam, img.status) \in ready]_vars



\* A request FORCE_UPDATE_<camera_id> whose id starts with CAM_ and whose camera has
\* an image in images_src.
ServableRequest(req) ==
    /\ StartsWith(req, "FORCE_UPDATE_CAM_")
    /\ \E f \in src :
          /\ SplitExt(f)[1] = DropPrefix(req, Len("FORCE_UPDATE_"))
          /\ Lower(SplitExt(f)[2]) \in ImageExts

\* The messages a step adds at the end of the force_served feed.
ServedAppended ==
    LET old == Pending(files, FORCE_SERVED_FEED)
        new == Pending(files', FORCE_SERVED_FEED)
    IN  SubSeq(new, Len(old) + 1, Len(new))

\* A servable request is taken up for its camera, and the loop stays on it, writing
\* nothing to force_served, until the write of its artifact has ended.
TakenUp ==
    /\ (img.pc = "request" /\ img' # img /\ ServableRequest(img.requests[img.i])) =>
          /\ img'.pc \in {"remove", "copy"}
          /\ img'.cam = DropPrefix(img.requests[img.i], Len("FORCE_UPDATE_"))
          /\ img'.status \in Verdicts
    /\ (img.pc \in {"request", "remove", "copy"} /\ img' # img) =>
          /\ ServedAppended = <<>>
          /\ img.pc # "request" => img'.i = img.i /\ img'.cam = img.cam
                                   /\ img'.status = img.status

INACTIVITY_THRESHOLD == 10

\* A command parser that splits the target from the state at the first underscore.
ForwardedDirective_FirstSplit(command) ==
    LET c == Strip(command)
        rest == DropPrefix(c, 8)
        k == Find(rest, "_")
    IN  IF ~StartsWith(c, "SET_CAM_") \/ k = 0 THEN <<>>
        ELSE IF Upper(SubSeq(rest, k + 1, Len(rest))) \notin {"ON", "OFF"} THEN <<>>
        ELSE <<"CAM_" \o SubSeq(rest, 1, k - 1) \o "_" \o Upper(SubSeq(rest, k + 1, Len(rest)))>>

\* A command parser that does not check the state token.
ForwardedDirective_AnyState(command) ==
    LET c == Strip(command)
        parts == RSplit1(DropPrefix(c, 4), "_")
    IN  IF ~StartsWith(c, "SET_CAM_") THEN <<>>
        ELSE <<parts[1] \o "_" \o Upper(parts[2])>>

\* The body of read_control_feed's loop for one command: the messages it writes to
\* the POWER feed (none or one).  command[len("SET_"):] still holds an underscore
\* after the prefix test, so the rsplit always yields two parts.
ForwardedDirective(command) ==
    LET c == Strip(command)
        parts == RSplit1(DropPrefix(c, 4), "_")
    IN  IF ~StartsWith(c, "SET_CAM_") THEN <<>>
        ELSE IF Len(parts) # 2 THEN <<>>
        ELSE IF Upper(parts[2]) \notin {"ON", "OFF"} THEN <<>>
        ELSE <<parts[1] \o "_" \o Upper(parts[2])>>

\* camera_inactivity_count.get(cam_id, 0)
CountOf(counts, cam_id) == IF cam_id \in DOMAIN counts THEN counts[cam_id] ELSE 0

\* camera_inactivity_count[cam_id] = n
SetCount(counts, cam_id, n) ==
    [x \in DOMAIN counts \cup {cam_id} |-> IF x = cam_id THEN n ELSE counts[x]]

\* A threshold test that lets the counter reach the threshold.
Trips_Late(n) == n > INACTIVITY_THRESHOLD

\* camera_inactivity_count.get(cam_id, 0) >= INACTIVITY_THRESHOLD
Trips(n) == n >= INACTIVITY_THRESHOLD

\* A loop body that emits the directive and leaves the counter where it is.
Observe_NoReset(counts, cam_id, status) ==
    LET n == IF status = "NO" THEN CountOf(counts, cam_id) + 1 ELSE 0
    IN  [counts |-> SetCount(counts, cam_id, n),
         out |-> IF n >= INACTIVITY_THRESHOLD THEN <<cam_id \o "_OFF">> ELSE <<>>]

\* One iteration of main's loop over statuses.items().
Observe(counts, cam_id, status) ==
    LET n == IF status = "NO" THEN CountOf(counts, cam_id) + 1 ELSE 0
    IN  IF Trips(n)
        THEN [counts |-> SetCount(counts, cam_id, 0), out |-> <<cam_id \o "_OFF">>]
        ELSE [counts |-> SetCount(counts, cam_id, n), out |-> <<>>]

\* A loop that forgets the counters of the cameras the listing does not hold.
RECURSIVE ObserveAll_Forgetful(_, _, _)
ObserveAll_Forgetful(counts, order, statuses) ==
    IF order = <<>>
    THEN [counts |-> [c \in DOMAIN counts \cap DOMAIN statuses |-> counts[c]], out |-> <<>>]
    ELSE LET h == Observe(counts, Head(order), statuses[Head(order)])
             r == ObserveAll_Forgetful(h.counts, Tail(order), statuses)
         IN  [counts |-> r.counts, out |-> h.out \o r.out]

\* The loop over statuses.items(), in the order the dictionary yields the cameras.
RECURSIVE ObserveAll(_, _, _)
ObserveAll(counts, order, statuses) ==
    IF order = <<>> THEN [counts |-> counts, out |-> <<>>]
    ELSE LET h == Observe(counts, Head(order), statuses[Head(order)])
             r == ObserveAll(h.counts, Tail(order), statuses)
         IN  [counts |-> r.counts, out |-> h.out \o r.out]

\* The orders in which a dictionary can yield its keys (os.listdir's order).
Orders(keys) ==
    {o \in [1..Cardinality(keys) -> keys] :
        \A i, j \in 1..Cardinality(keys) : i # j => o[i] # o[j]}

\* write_to_power_feed for each message of a list.
RECURSIVE AfterPowerWrites(_, _)
AfterPowerWrites(fs, out) ==
    IF out = <<>> THEN fs
    ELSE AfterPowerWrites(AfterAppend(fs, POWER_FEED, Head(out)), Tail(out))

CtlStart == [pc |-> "read", commands |-> <<>>, i |-> 1, camera_inactivity_count |-> <<>>]

MonitorCams == {"CAM_a", "CAM_b"}

MaxStreak == 20

\* What the checks remember: how many commands were published, for each camera the
\* number of consecutive NO observations since the last YES observation or OFF
\* directive for it, and, until the next iteration begins, the cameras the listing of
\* the iteration that just ended did not hold.
NoHistory == [published |-> 0, absent |-> [c \in MonitorCams |-> 0], unlisted |-> {}]

\* Where the checks follow them, the lengths of the cameras' runs of NO observations
\* since their last YES observation, which no OFF directive interrupts; lengths above
\* MaxStreak are kept less a whole number of thresholds.
NoStreaks == [streak |-> [c \in MonitorCams |-> 0]]

Streaks(history, statuses) ==
    IF "streak" \notin DOMAIN history THEN history
    ELSE [history EXCEPT !.streak =
            [c \in MonitorCams |->
                IF c \notin DOMAIN statuses THEN @[c]
                ELSE IF statuses[c] = "YES" THEN 0
                ELSE IF @[c] + 1 > MaxStreak THEN @[c] + 1 - INACTIVITY_THRESHOLD
                ELSE @[c] + 1]]

\* read_control_feed: commands = consume_messages(CONTROL_FEED)
CtlReadControlFeed ==
    /\ ctl.pc = "read"
    /\ LET commands == Pending(files, CONTROL_FEED)
       IN  ctl' = [ctl EXCEPT !.pc = IF commands = <<>> THEN "monitor" ELSE "command",
                              !.commands = commands, !.i = 1]
    /\ files' = AfterConsume(files, CONTROL_FEED)
    /\ trace' = [trace EXCEPT !.unlisted = {}]
    /\ UNCHANGED <<ready, src, img, ui>>

\* A loop that starts the inactivity counters afresh after each command.
NextCommand_ResetCounters(c) ==
    IF c.i < Len(c.commands) THEN [c EXCEPT !.i = c.i + 1, !.camera_inactivity_count = <<>>]
    ELSE [c EXCEPT !.pc = "monitor", !.commands = <<>>, !.i = 1,
                   !.camera_inactivity_count = <<>>]

\* The control server after the command at position i: the next command, or the
\* status listing when that was the last one.
NextCommand(c) ==
    IF c.i < Len(c.commands) THEN [c EXCEPT !.i = c.i + 1]
    ELSE [c EXCEPT !.pc = "monitor", !.commands = <<>>, !.i = 1]

\* read_control_feed: one iteration of "for command in commands"
CtlCommand ==
    /\ ctl.pc = "command"
    /\ files' = AfterPowerWrites(files, ForwardedDirective(ctl.commands[ctl.i]))
    /\ ctl' = NextCommand(ctl)
    /\ UNCHANGED <<ready, src, img, ui, trace>>

\* How often message m occurs in a list.
RECURSIVE Occurrences(_, _)
Occurrences(list, m) ==
    IF list = <<>> THEN 0
    ELSE (IF Head(list) = m THEN 1 ELSE 0) + Occurrences(Tail(list), m)

\* main: statuses = get_camera_status() and the loop over it.  The step waits while
\* its directives would not fit into the POWER feed.
CtlMonitor ==
    /\ ctl.pc = "monitor"
    /\ \E statuses \in Listings(ready) : \E order \in Orders(DOMAIN statuses) :
          LET r == ObserveAll(ctl.camera_inactivity_count, order, statuses)
          IN  /\ files' = AfterPowerWrites(files, r.out)
              /\ r.out = <<>> \/ Fits(files'[POWER_FEED].data)
              /\ ctl' = [ctl EXCEPT !.pc = "read", !.camera_inactivity_count = r.counts]
              /\ trace' = Streaks([trace EXCEPT !.absent =
                   [c \in MonitorCams |->
                       IF c \notin DOMAIN statuses THEN @[c]
                       ELSE IF statuses[c] = "YES" \/ Occurrences(r.out, c \o "_OFF") > 0
                            THEN 0
                       ELSE @[c] + 1],
                                          !.unlisted = MonitorCams \ DOMAIN statuses],
                                 statuses)
    /\ UNCHANGED <<ready, src, img, ui>>


(***************************************************************************)
(* SpecControl: publishers append commands to the control feed while the   *)
(* control server runs its loop beside one camera that is in use.          *)
(***************************************************************************)
MaxCommands == 2

ControlInputs ==
    {"SET_CAM_a_ON", "SET_CAM_front_door_OFF", "SET_CAM_ON", "SET_LAMP_ON",
     "SET_CAM_a_on", "SET_CAM_a_UP", "TURN_ON_CAM_a"}

InitControl ==
    /\ files = NoFeeds
    /\ ready \in {{"CAM_a_YES.jpg"}, {"CAM_a_NO.jpg"}}
    /\ src = {}
    /\ ctl = CtlStart
    /\ img = ImgOff
    /\ ui = UiOff
    /\ trace = NoHistory

\* A publisher of the control feed, the dashboard's send_control_command among them:
\* append_message(CONTROL_FEED, message)
PublishControl(message) ==
    /\ trace.published < MaxCommands
    /\ files' = AfterAppend(files, CONTROL_FEED, message)
    /\ trace' = [trace EXCEPT !.published = @ + 1]
    /\ UNCHANGED <<ready, src, ctl, img, ui>>

NextControl ==
    \/ \E message \in ControlInputs : PublishControl(message)
    \/ CtlReadControlFeed
    \/ CtlCommand
    \/ CtlMonitor

SpecControl == InitControl /\ [][NextControl]_vars

(***************************************************************************)
(* SpecMonitor: the image server rewrites the status artifacts of two      *)
(* cameras while the control server runs its loop and the power actuator   *)
(* drains the POWER feed.                                                  *)
(***************************************************************************)
InitMonitor ==
    /\ files = NoFeeds
    /\ ready = {}
    /\ src = {}
    /\ ctl = CtlStart
    /\ img = ImgOff
    /\ ui = UiOff
    /\ trace = NoHistory

\* A whole call _write_ready_image(source, camera_id, status): each removal of an
\* artifact of the camera may fail, and so may the copy.
WriteReadyImage(camera_id, status) ==
    /\ \E removed \in SUBSET ExistingReadyFiles(ready, camera_id) :
       \E created \in {{}, {DestinationName(camera_id, status)}} :
          ready' = (ready \ removed) \cup created
    /\ UNCHANGED <<files, src, ctl, img, ui, trace>>

\* The power actuator takes the directives: consume_messages(POWER_FEED)
ActuatorDrain ==
    /\ Pending(files, POWER_FEED) # <<>>
    /\ files' = AfterConsume(files, POWER_FEED)
    /\ UNCHANGED <<ready, src, ctl, img, ui, trace>>

NextMonitor ==
    \/ \E c \in MonitorCams, v \in Verdicts : WriteReadyImage(c, v)
    \/ CtlReadControlFeed
    \/ CtlMonitor
    \/ ActuatorDrain

SpecMonitor == InitMonitor /\ [][NextMonitor]_vars


(***************************************************************************)
(* Claims about the control server (SpecMonitor, SpecControl).             *)
(***************************************************************************)
\* The messages a step adds at the end of the POWER feed.
PowerAppended ==
    LET old == Pending(files, POWER_FEED)
        new == Pending(files', POWER_FEED)
    IN  SubSeq(new, Len(old) + 1, Len(new))

MonitorStep == ctl.pc = "monitor" /\ ctl'.pc = "read"

CommandStep == ctl.pc = "command" /\ ctl' # ctl

\* C6: in the control server loop, for every camera the pass lists: a YES observation
\* sets its counter to 0 and emits nothing; a NO observation that is at most the 9th
\* in a row (since the counter was last 0 by a YES, an OFF or the start) emits no
\* <id>_OFF and makes the counter the length of the run; the 10th in a row appends
\* exactly one <id>_OFF to the POWER feed and resets the counter to 0.
C6_InactivityThreshold ==
    [][MonitorStep =>
        \E statuses \in Listings(ready) : \A c \in DOMAIN statuses :
            LET offs == Occurrences(PowerAppended, c \o "_OFF")
                run == trace.absent[c]
                after == CountOf(ctl'.camera_inactivity_count, c)
            IN  /\ CountOf(ctl.camera_inactivity_count, c) = run
                /\ statuses[c] = "YES" => offs = 0 /\ after = 0
                /\ (statuses[c] = "NO" /\ run < 9) => offs = 0 /\ after = run + 1
                /\ (statuses[c] = "NO" /\ run >= 9) => offs = 1 /\ after = 0]_vars

\* C6 witness: the pass that just ended appended CAM_a_OFF after ten NO observations
\* in a row and reset the counter of CAM_a.
C6_Witness ==
    /\ ctl.pc = "read"
    /\ ready = {"CAM_a_NO.jpg"}
    /\ "CAM_a" \in DOMAIN ctl.camera_inactivity_count
    /\ ctl.camera_inactivity_count["CAM_a"] = 0
    /\ trace.absent["CAM_a"] = 0
    /\ Pending(files, POWER_FEED) = <<"CAM_a_OFF">>

\* C17: a camera the listing of a loop iteration does not hold keeps its counter as
\* it is in that iteration (neither reset nor incremented, no OFF for it); when it is
\* listed again with NO the count goes on from the kept value, so it turns to 0 with
\* an OFF exactly when the kept value was 9.
C17_UnlistedCounterFrozen ==
    [][MonitorStep =>
        \E statuses \in Listings(ready) : \A c \in MonitorCams :
            LET offs == Occurrences(PowerAppended, c \o "_OFF")
                kept == CountOf(ctl.camera_inactivity_count, c)
                after == CountOf(ctl'.camera_inactivity_count, c)
            IN  /\ c \in DOMAIN statuses <=> c \notin trace'.unlisted
                /\ c \notin DOMAIN statuses =>
                      /\ offs = 0
                      /\ after = kept
                      /\ c \in DOMAIN ctl'.camera_inactivity_count
                            <=> c \in DOMAIN ctl.camera_inactivity_count
                /\ (c \in DOMAIN statuses /\ statuses[c] = "NO") =>
                      /\ after = (kept + 1) % 10
                      /\ offs = (IF kept = 9 THEN 1 ELSE 0)]_vars

\* C17 witness: the iteration that just ended did not list CAM_a, whose counter is
\* still 3 while CAM_b was counted up to 5.
C17_Witness ==
    /\ ctl.pc = "read"
    /\ "CAM_a" \in trace.unlisted
    /\ "CAM_a" \in DOMAIN ctl.camera_inactivity_count
    /\ ctl.camera_inactivity_count["CAM_a"] = 3
    /\ "CAM_b" \in DOMAIN ctl.camera_inactivity_count
    /\ ctl.camera_inactivity_count["CAM_b"] = 5

\* A message of the form SET_<target>_<ON|OFF> with a non-empty target.
IsSetCommand(m) ==
    /\ StartsWith(m, "SET_")
    /\ \/ EndsWith(m, "_ON") /\ Len(m) > Len("SET_") + Len("_ON")
       \/ EndsWith(m, "_OFF") /\ Len(m) > Len("SET_") + Len("_OFF")

\* C7 as stated: every drained message SET_<target>_<ON|OFF> with any non-empty
\* target makes read_control_feed append exactly the one message <target>_<ON|OFF>
\* to the POWER feed.
C7_AnyTargetForwarded ==
    [][(CommandStep /\ IsSetCommand(ctl.commands[ctl.i])) =>
        PowerAppended = <<DropPrefix(ctl.commands[ctl.i], Len("SET_"))>>]_vars

\* C7 amended: every drained message SET_<target>_<ON|OFF> whose target is CAM or
\* begins with CAM_ (the message begins with SET_CAM_) makes read_control_feed
\* append exactly the one message <target>_<ON|OFF> to the POWER feed.
C7_CamTargetForwarded ==
    [][(/\ CommandStep
        /\ IsSetCommand(ctl.commands[ctl.i])
        /\ StartsWith(ctl.commands[ctl.i], "SET_CAM_")) =>
        PowerAppended = <<DropPrefix(ctl.commands[ctl.i], Len("SET_"))>>]_vars

\* C7 witness: SET_CAM_front_door_OFF was the only command published and the POWER
\* feed holds CAM_front_door_OFF once.
C7_Witness ==
    /\ trace.published = 1
    /\ ctl.pc = "monitor"
    /\ Pending(files, CONTROL_FEED) = <<>>
    /\ Pending(files, POWER_FEED) = <<"CAM_front_door_OFF">>

\* The final underscore-separated token of a message.
FinalToken(m) == LET parts == RSplit1(m, "_") IN parts[Len(parts)]

\* What discarding the command at hand means: nothing is appended to the POWER feed,
\* the control feed is left as it is, and the loop goes on with the next command.
Discarded ==
    /\ PowerAppended = <<>>
    /\ files'[CONTROL_FEED] = files[CONTROL_FEED]
    /\ ctl' = NextCommand(ctl)

\* C8 as stated: a drained message that does not start with SET_, or whose final
\* underscore-separated token is not ON or OFF, is discarded.
C8_InvalidDiscarded ==
    [][(/\ CommandStep
        /\ \/ ~StartsWith(ctl.commands[ctl.i], "SET_")
           \/ FinalToken(ctl.commands[ctl.i]) \notin {"ON", "OFF"}) => Discarded]_vars

\* C8 amended: a drained message that does not start with SET_, or whose final
\* underscore-separated token is not ON or OFF in any letter case, is discarded.
C8_InvalidDiscardedAnyCase ==
    [][(/\ CommandStep
        /\ \/ ~StartsWith(ctl.commands[ctl.i], "SET_")
           \/ Upper(FinalToken(ctl.commands[ctl.i])) \notin {"ON", "OFF"}) => Discarded]_vars

\* C8 witness: SET_CAM_a_UP was drained together with a valid command; it has been
\* handled, nothing was written for it or put back, and the valid command is next.
C8_Witness ==
    /\ ctl.pc = "command"
    /\ ctl.i = 2
    /\ ctl.commands = <<"SET_CAM_a_UP", "SET_CAM_a_ON">>
    /\ Pending(files, POWER_FEED) = <<>>
    /\ Pending(files, CONTROL_FEED) = <<>>

\* A step of read_control_feed: the drain, or the handling of one drained command.
ForwardingStep == ctl.pc \in {"read", "command"} /\ ctl' # ctl

\* What a drained command asks for, read from the command alone: the text after
\* SET_ with its final token in upper case when the command begins with SET_CAM_
\* and that token is ON or OFF in any letter case, nothing otherwise.
Requested(command) ==
    LET c == Strip(command)
        state == Upper(FinalToken(c))
        target == SubSeq(c, Len("SET_") + 1, Len(c) - Len(FinalToken(c)) - 1)
    IN  IF StartsWith(c, "SET_CAM_") /\ state \in {"ON", "OFF"}
        THEN <<target \o "_" \o state>>
        ELSE <<>>

\* C20: a step of read_control_feed changes no feed file but the control feed and
\* the POWER feed, no status artifact and no inactivity counter; the drain empties
\* the control feed and appends nothing to the POWER feed; the handling of a command
\* leaves the control feed alone and appends to the POWER feed exactly what the
\* command asks for, whatever the cameras' artifacts and counters are.
C20_PureForwarding ==
    [][ForwardingStep =>
        /\ ready' = ready
        /\ ctl'.camera_inactivity_count = ctl.camera_inactivity_count
        /\ \A f \in FeedFiles \ {CONTROL_FEED, POWER_FEED} : files'[f] = files[f]
        /\ Pending(files, POWER_FEED) \o PowerAppended = Pending(files', POWER_FEED)
        /\ ctl.pc = "read" =>
              /\ Pending(files', CONTROL_FEED) = <<>>
              /\ ctl'.commands = Pending(files, CONTROL_FEED)
              /\ PowerAppended = <<>>
        /\ ctl.pc = "command" =>
              /\ files'[CONTROL_FEED] = files[CONTROL_FEED]
              /\ PowerAppended = Requested(ctl.commands[ctl.i])]_vars

\* C20 witness: with the camera's artifact saying NO and its counter at 4, the two
\* drained commands SET_CAM_a_on and SET_LAMP_ON have been handled: the POWER feed
\* gained CAM_a_ON only and the counter is still 4.
C20_Witness ==
    /\ ctl.pc = "monitor"
    /\ trace.published = 2
    /\ ready = {"CAM_a_NO.jpg"}
    /\ CountOf(ctl.camera_inactivity_count, "CAM_a") = 4
    /\ Pending(files, CONTROL_FEED) = <<>>
    /\ Pending(files, POWER_FEED) = <<"CAM_a_ON">>



(***************************************************************************)
(* The batch capture cycle of the image server: capture_and_update_images  *)
(* lists images_src, asks the Inference Provider batch by batch, and       *)
(* writes one status artifact per result.                                  *)
(***************************************************************************)
IMAGE_SRC_DIR == "images_src"

BATCH_SIZE == 25

MaxBatch == 2

\* os.path.join(directory, entry)
JoinPath(directory, entry) == directory \o "/" \o entry

\* os.path.basename(path)
BaseName(path) == SubSeq(path, RFind(path, "/") + 1, Len(path))

\* _camera_id_from_path: both branches return the stem of the file name.
CameraIdFromPath(image_path) == SplitExt(BaseName(image_path))[1]

\* _list_source_images: the paths it returns, in the order os.listdir yields them.
ListSourceImages(dir) ==
    {JoinPath(IMAGE_SRC_DIR, entry) : entry \in
        {e \in dir : /\ \E x \in ImageExts : EndsWith(Lower(e), x)
                     /\ StartsWith(SplitExt(e)[1], "CAM_")}}

\* A slice that loses the last path of every batch.
BatchPaths_Short(all_image_files, i, size) ==
    SubSeq(all_image_files, i + 1,
           IF i + size - 1 < Len(all_image_files) THEN i + size - 1 ELSE Len(all_image_files))

\* all_image_files[i:i + BATCH_SIZE]
BatchPaths(all_image_files, i, size) ==
    SubSeq(all_image_files, i + 1,
           IF i + size < Len(all_image_files) THEN i + size ELSE Len(all_image_files))

\* What MODEL.predict returns for a batch: one prediction per image in the order of
\* the batch, TRUE when it holds a person box; with omitted > 0 the prediction of the
\* image at that position is left out.
Predictions(image_paths, truth, omitted) ==
    [k \in 1..(Len(image_paths) - (IF omitted = 0 THEN 0 ELSE 1)) |->
        truth[image_paths[IF omitted = 0 \/ k < omitted THEN k ELSE k + 1]]]

\* detect_person_in_batch with a loaded model: every path starts as "NO" and the
\* i-th prediction, if it holds a box, makes the i-th path "YES".  The dictionary is
\* kept as the sequence of its items.
ResultsMap(image_paths, predictions) ==
    [k \in 1..Len(image_paths) |->
        <<image_paths[k],
          IF k <= Len(predictions) /\ predictions[k] THEN "YES" ELSE "NO">>]

\* capture_and_update_images: status_token = status.upper(), "NO" unless YES or NO.
StatusToken(status) == IF Upper(status) \in Verdicts THEN Upper(status) ELSE "NO"

BatchSourceDir == {"CAM_a.jpg", "CAM_b.PNG", "dog.jpg", "CAM_notes.txt"}

BatchSizes == (1..MaxBatch) \cup {BATCH_SIZE}

BatchIdle == [pc |-> "idle", all_image_files |-> <<>>, i |-> 0,
              detection_results |-> <<>>, k |-> 1]

\* What the checks remember of the running cycle: the provider's true verdicts, how
\* the provider behaved, the path whose prediction it left out of the batch at hand,
\* the _write_ready_image calls made, whether the cycle has ended, and whether a
\* removal or a copy failed in it.
NoCycle == [provider |-> "function", omitted |-> "", calls |-> <<>>, ended |-> FALSE,
            faulty |-> FALSE]

InitBatch ==
    /\ files = NoFeeds
    /\ ready = {}
    /\ src = BatchSourceDir
    /\ ctl = CtlOff
    /\ ui = UiOff
    /\ \E size \in BatchSizes, loaded \in BOOLEAN :
          img = [BatchIdle EXCEPT !.pc = "idle"] @@ [batch_size |-> size, model |-> loaded]
    /\ \E truth \in [ListSourceImages(BatchSourceDir) -> BOOLEAN] :
          trace = NoCycle @@ [truth |-> truth]

\* capture_and_update_images, lines 165-167: all_image_files = _list_source_images()
BatchList ==
    /\ img.pc = "idle"
    /\ \E order \in Orders(ListSourceImages(src)) :
          img' = [img EXCEPT !.pc = IF order = <<>> THEN "idle" ELSE "detect",
                             !.all_image_files = order, !.i = 0,
                             !.detection_results = <<>>, !.k = 1]
    /\ trace' = NoCycle @@ [truth |-> trace.truth]
    /\ UNCHANGED <<files, ready, src, ctl, ui>>

\* capture_and_update_images, lines 171-175: detect_person_in_batch(batch_paths).
\* Without a model the verdicts are random; with one, MODEL.predict answers for every
\* image, leaves one out, or raises (every path stays "NO").
BatchDetect(mode) ==
    /\ img.pc = "detect"
    /\ LET batch_paths == BatchPaths(img.all_image_files, img.i, img.batch_size)
           n == Len(batch_paths)
       IN  \E omitted \in 1..n, random \in [1..n -> Verdicts] :
             /\ mode = "omits" \/ omitted = 1
             /\ mode = "random" \/ \A k \in 1..n : random[k] = "NO"
             /\ mode = "random" <=> ~img.model
             /\ img' = [img EXCEPT !.pc = "write", !.k = 1, !.detection_results =
                   CASE mode = "random" -> [k \in 1..n |-> <<batch_paths[k], random[k]>>]
                     [] mode = "complete" ->
                          ResultsMap(batch_paths, Predictions(batch_paths, trace.truth, 0))
                     [] mode = "omits" ->
                          ResultsMap(batch_paths,
                                     Predictions(batch_paths, trace.truth, omitted))
                     [] mode = "raises" -> ResultsMap(batch_paths, <<>>)]
             /\ trace' = [trace EXCEPT
                   !.provider = IF mode = "complete" THEN @ ELSE mode,
                   !.omitted = IF mode = "omits" THEN batch_paths[omitted] ELSE ""]
    /\ UNCHANGED <<files, ready, src, ctl, ui>>

\* capture_and_update_images, lines 182-187: one iteration of the loop over
\* detection_results.items(), a whole _write_ready_image call, and after the last
\* item the next batch or the end of the cycle.
BatchWrite ==
    /\ img.pc = "write"
    /\ LET img_path == img.detection_results[img.k][1]
           camera_id == CameraIdFromPath(img_path)
           status_token == StatusToken(img.detection_results[img.k][2])
           more == img.i + img.batch_size < Len(img.all_image_files)
       IN  /\ \E removed \in SUBSET ExistingReadyFiles(ready, camera_id) :
              \E created \in {{}, {DestinationName(camera_id, status_token)}} :
                 /\ ready' = (ready \ removed) \cup created
                 /\ trace' = [trace EXCEPT
                       !.calls = Append(@, <<img_path, camera_id, status_token>>),
                       !.ended = (img.k = Len(img.detection_results) /\ ~more),
                       !.faulty = \/ @
                                  \/ removed # ExistingReadyFiles(ready, camera_id)
                                  \/ created = {}]
           /\ img' = IF img.k < Len(img.detection_results)
                     THEN [img EXCEPT !.k = @ + 1]
                     ELSE IF more
                     THEN [img EXCEPT !.pc = "detect", !.i = @ + img.batch_size,
                                      !.detection_results = <<>>, !.k = 1]
                     ELSE [img EXCEPT !.pc = "idle", !.all_image_files = <<>>, !.i = 0,
                                      !.detection_results = <<>>, !.k = 1]
    /\ UNCHANGED <<files, src, ctl, ui>>

NextBatch ==
    \/ BatchList
    \/ \E mode \in {"random", "complete", "omits", "raises"} : BatchDetect(mode)
    \/ BatchWrite

SpecBatch == InitBatch /\ [][NextBatch]_vars



(***************************************************************************)
(* Claims about the batch capture cycle (SpecBatch).                       *)
(***************************************************************************)
\* The verdict the provider holds for a path.
TrueVerdict(path) == IF trace.truth[path] THEN "YES" ELSE "NO"

\* C12: when the provider's answer for a batch leaves out the verdict of one
\* identifier, capture_and_update_images still calls _write_ready_image for every
\* identifier of the batch, with NO for the one left out and with the provider's own
\* verdict for each of the others.
C12_OmittedVerdictIsAbsent ==
    [][(img.pc = "write" /\ img' # img /\ trace.omitted # "") =>
          LET img_path == img.detection_results[img.k][1]
              call == trace'.calls[Len(trace'.calls)]
          IN  /\ Len(img.detection_results)
                   = Len(BatchPaths(img.all_image_files, img.i, img.batch_size))
              /\ call[1] = img_path
              /\ call[3] = IF img_path = trace.omitted THEN "NO"
                           ELSE TrueVerdict(img_path)]_vars


\* The _write_ready_image call a cycle owes to a source path when the provider's
\* verdict is a function of the path.
ExpectedCall(path) == <<path, CameraIdFromPath(path), TrueVerdict(path)>>

\* C16: with a provider whose verdict is a fixed function of the identifier, a batch
\* capture cycle makes, whatever the batch size, one _write_ready_image call per
\* source image in listing order with the provider's verdict for it; so when no
\* removal or copy failed the final mapping camera id -> verdict is the provider's
\* function and does not depend on BATCH_SIZE.
C16_BatchSizeIndependent ==
    trace.provider = "function" =>
        /\ img.pc \in {"detect", "write"} =>
              /\ Len(trace.calls) = img.i + (IF img.pc = "write" THEN img.k - 1 ELSE 0)
              /\ \A j \in 1..Len(trace.calls) :
                    trace.calls[j] = ExpectedCall(img.all_image_files[j])
        /\ trace.ended =>
              /\ Len(trace.calls) = Cardinality(ListSourceImages(src))
              /\ {trace.calls[j][1] : j \in 1..Len(trace.calls)} = ListSourceImages(src)
              /\ \A j \in 1..Len(trace.calls) :
                    trace.calls[j] = ExpectedCall(trace.calls[j][1])
              /\ ~trace.faulty =>
                    Listings(ready) =
                        {[c \in {CameraIdFromPath(q) : q \in ListSourceImages(src)} |->
                            TrueVerdict(CHOOSE q \in ListSourceImages(src) :
                                            CameraIdFromPath(q) = c)]}

\* C16 witness: a cycle with batch size 1 took two batches and ended, without a
\* failed removal or copy, in the mapping a single batch of 25 yields as well.
C16_Witness ==
    /\ trace.ended
    /\ trace.provider = "function"
    /\ ~trace.faulty
    /\ img.batch_size = 1
    /\ Len(trace.calls) = 2
    /\ trace.truth["images_src/CAM_a.jpg"]
    /\ ~trace.truth["images_src/CAM_b.PNG"]
    /\ ready = {"CAM_a_YES.jpg", "CAM_b_NO.jpg"}



(***************************************************************************)
(* SpecSched: the main loop of the image server against the clock.  Every  *)
(* tick handles the force requests, reads time.time() and runs the batch   *)
(* capture when it is due, then sleeps; each handler is one step.          *)
(***************************************************************************)
CAPTURE_INTERVAL == 60

\* time.time() when the loop starts: seconds since 1970.
StartTime == 1700000000

MaxTicks == 4

\* Seconds from one reading of the clock to the next: the sleep of one second plus
\* the time the handlers took.
TickLengths == {1, CAPTURE_INTERVAL - 1, CAPTURE_INTERVAL}

\* The stores a whole call _write_ready_image(source, camera_id, status) can leave.
WriteOutcomes(dir, camera_id, status) ==
    {(dir \ removed) \cup created :
        removed \in SUBSET ExistingReadyFiles(dir, camera_id),
        created \in {{}, {DestinationName(camera_id, status)}}}

\* The stores a run of _write_ready_image calls, one per camera id of the list and
\* each with a verdict of the provider, can leave.
RECURSIVE AfterWrites(_, _)
AfterWrites(dirs, camera_ids) ==
    IF camera_ids = <<>> THEN dirs
    ELSE AfterWrites(UNION {WriteOutcomes(d, Head(camera_ids), v) : d \in dirs, v \in Verdicts},
                     Tail(camera_ids))

\* The stores a whole capture_and_update_images() can leave.
AfterCapture(dir, source_dir) ==
    UNION {AfterWrites({dir}, [k \in 1..Len(order) |-> CameraIdFromPath(order[k])]) :
              order \in Orders(ListSourceImages(source_dir))}

\* The camera ids of the requests process_force_requests does not skip, in order.
RECURSIVE ServedCams(_, _)
ServedCams(requests, source_dir) ==
    IF requests = <<>> THEN <<>>
    ELSE (IF RequestDropped(Head(requests), source_dir) THEN <<>>
          ELSE <<RequestCamId(Head(requests))>>) \o ServedCams(Tail(requests), source_dir)

\* append_message(FORCE_SERVED_FEED, "UPDATED_" + cam_id) for each camera of a list.
RECURSIVE AfterServed(_, _)
AfterServed(fs, camera_ids) ==
    IF camera_ids = <<>> THEN fs
    ELSE AfterServed(AfterAppend(fs, FORCE_SERVED_FEED, "UPDATED_" \o Head(camera_ids)),
                     Tail(camera_ids))

\* A test that lets the interval pass by one more second.
CaptureDue_Late(current_time, last_capture_time) ==
    current_time - last_capture_time > CAPTURE_INTERVAL

\* main, line 250: current_time - last_capture_time >= CAPTURE_INTERVAL
CaptureDue(current_time, last_capture_time) ==
    current_time - last_capture_time >= CAPTURE_INTERVAL

SchedStart == [pc |-> "force", last_capture_time |-> 0, current_time |-> 0]

\* What the checks remember: the requests issued, the sleeps taken, the clock, the
\* readings of the clock at the last two batch runs (0: none yet), and whether the
\* tick at hand drained the force requests and ran the batch.
NoTicks == [requested |-> 0, ticks |-> 0, clock |-> StartTime, runs |-> <<0, 0>>,
            drained |-> FALSE, ran |-> FALSE]

InitSched ==
    /\ files = NoFeeds
    /\ ready = {}
    /\ src = {"CAM_a.jpg"}
    /\ ctl = CtlOff
    /\ img = SchedStart
    /\ ui = [pending_force_updates |-> {}]
    /\ trace = NoTicks

\* main, line 246: process_force_requests(), the whole handler.
SchedForce ==
    /\ img.pc = "force"
    /\ LET camera_ids == ServedCams(Pending(files, FORCE_REQUEST_FEED), src)
       IN  /\ files' = AfterServed(AfterConsume(files, FORCE_REQUEST_FEED), camera_ids)
           /\ ready' \in AfterWrites({ready}, camera_ids)
    /\ img' = [img EXCEPT !.pc = "clock"]
    /\ trace' = [trace EXCEPT !.drained = TRUE, !.ran = FALSE]
    /\ UNCHANGED <<src, ctl, ui>>

\* main, lines 249-252: current_time = time.time(); the batch capture, the whole
\* handler, when current_time - last_capture_time >= CAPTURE_INTERVAL.
SchedClock ==
    /\ img.pc = "clock"
    /\ LET current_time == trace.clock
           due == CaptureDue(current_time, img.last_capture_time)
       IN  /\ ready' \in (IF due THEN AfterCapture(ready, src) ELSE {ready})
           /\ img' = [img EXCEPT !.pc = "sleep", !.current_time = current_time,
                                 !.last_capture_time = IF due THEN current_time ELSE @]
           /\ trace' = [trace EXCEPT !.ran = due,
                           !.runs = IF due THEN <<@[2], current_time>> ELSE @]
    /\ UNCHANGED <<files, src, ctl, ui>>

\* main, line 254: time.sleep(1)
SchedSleep(seconds) ==
    /\ img.pc = "sleep"
    /\ trace.ticks < MaxTicks
    /\ img' = [img EXCEPT !.pc = "force"]
    /\ trace' = [trace EXCEPT !.ticks = @ + 1, !.clock = @ + seconds, !.drained = FALSE]
    /\ UNCHANGED <<files, ready, src, ctl, ui>>

NextSched ==
    \/ UiRequestForceUpdate("CAM_a")
    \/ SchedForce
    \/ SchedClock
    \/ \E seconds \in TickLengths : SchedSleep(seconds)

SpecSched == InitSched /\ [][NextSched]_vars



(***************************************************************************)
(* Claims about the scheduler of the image server (SpecSched).             *)
(***************************************************************************)
\* The clock reading of the last batch run before the tick at hand, 0 if none.
RunBefore == IF trace.ran THEN trace.runs[1] ELSE trace.runs[2]

\* C19: when a tick of the image server loop has done its work, it has drained the
\* force-request feed, and it has run the batch capture if and only if no batch had
\* run yet or at least CAPTURE_INTERVAL seconds lay between the clock reading of the
\* last batch run and the one of this tick; so two consecutive batch runs are at
\* least CAPTURE_INTERVAL apart and the first tick runs a batch.
C19_BatchEveryCaptureInterval ==
    /\ [][(img.pc = "force" /\ img' # img) =>
             /\ img'.pc = "clock"
             /\ Pending(files', FORCE_REQUEST_FEED) = <<>>]_vars
    /\ [][(img.pc = "sleep" /\ img' # img) => img'.pc = "force"]_vars
    /\ [](/\ img.pc = "sleep" =>
                /\ trace.ran <=> (RunBefore = 0 \/ img.current_time - RunBefore >= 60)
                /\ trace.ticks = 0 => trace.ran
          /\ trace.runs[1] # 0 => trace.runs[2] - trace.runs[1] >= 60)

\* C19 witness: the first tick ran a batch, the tick 59 seconds later did not, and
\* the tick one more second later ran the second batch, 60 seconds after the first.
C19_Witness ==
    /\ img.pc = "sleep"
    /\ trace.ticks = 2
    /\ trace.ran
    /\ trace.runs = <<StartTime, StartTime + 60>>
    /\ Pending(files, FORCE_REQUEST_FEED) = <<>>
    /\ Pending(files, FORCE_SERVED_FEED) = <<"UPDATED_CAM_a">>


(***************************************************************************)
(* SpecInactivity: the control server's loop beside a camera whose         *)
(* artifact is rewritten with either verdict and a camera whose artifact   *)
(* stays at NO, while the power actuator drains the POWER feed.            *)
(***************************************************************************)
InitInactivity ==
    /\ files = NoFeeds
    /\ ready = {"CAM_b_NO.jpg"}
    /\ src = {}
    /\ ctl = CtlStart
    /\ img = ImgOff
    /\ ui = UiOff
    /\ trace = NoHistory @@ NoStreaks

NextInactivity ==
    \/ \E v \in Verdicts : WriteReadyImage("CAM_a", v)
    \/ CtlReadControlFeed
    \/ CtlMonitor
    \/ ActuatorDrain

SpecInactivity == InitInactivity /\ [][NextInactivity]_vars

\* C21: every inactivity counter lies in 0 .. INACTIVITY_THRESHOLD-1 whenever a loop
\* iteration has ended; a monitoring pass appends <id>_OFF at most once for a
\* camera, and it does so exactly when its NO observation of the camera is the
\* 10th, 20th, ... of a run of NO observations that no YES observation interrupts;
\* the counter then is the length of the run modulo the threshold.
C21_CounterBelowThreshold ==
    /\ [](\A c \in DOMAIN ctl.camera_inactivity_count :
            ctl.camera_inactivity_count[c] \in 0..(INACTIVITY_THRESHOLD - 1))
    /\ [][MonitorStep =>
            \A c \in MonitorCams :
                LET offs == Occurrences(PowerAppended, c \o "_OFF")
                    before == trace.streak[c]
                    after == trace'.streak[c]
                IN  /\ offs <= 1
                    /\ offs = 1 <=> /\ after # before
                                    /\ after # 0
                                    /\ after % INACTIVITY_THRESHOLD = 0
                    /\ after # before =>
                          CountOf(ctl'.camera_inactivity_count, c)
                              = after % INACTIVITY_THRESHOLD]_vars

\* C21 witness: CAM_b has been observed NO twenty times in a row and the passes of
\* the tenth and the twentieth observation each appended CAM_b_OFF; its counter is 0
\* again, while CAM_a, seen YES in between, is at the third NO of its run.
C21_Witness ==
    /\ ctl.pc = "read"
    /\ trace.streak["CAM_b"] = 2 * INACTIVITY_THRESHOLD
    /\ trace.streak["CAM_a"] = 3
    /\ CountOf(ctl.camera_inactivity_count, "CAM_b") = 0
    /\ CountOf(ctl.camera_inactivity_count, "CAM_a") = 3
    /\ Pending(files, POWER_FEED) = <<"CAM_b_OFF", "CAM_b_OFF">>


(***************************************************************************)
(* SpecAnswer: the dashboard and the image server as two processes that    *)
(* share the force_request and force_served feeds, at the granularity of   *)
(* consume_messages' file operations.  The dashboard runs its callbacks    *)
(* one at a time; the image server runs process_force_requests again and   *)
(* again; feeds.py takes no lock.                                          *)
(***************************************************************************)
\* Camera ids the dashboard asks a force update for: CAM_a has a source image,
\* CAM_9 has none.
AnswerIds == {"CAM_a", "CAM_9"}

AnswerSources == {"CAM_a.jpg"}

\* What the checks remember: the calls of request_force_update, and for each camera
\* id the FORCE_UPDATE_ messages ever appended to force_request and the UPDATED_
\* messages ever appended to force_served.
NoneAsked == [requested |-> 0, asked |-> [c \in AnswerIds |-> 0],
              served |-> [c \in AnswerIds |-> 0]]

ImgWaiting == [pc |-> "idle", requests |-> <<>>, i |-> 1]

UiWaiting == [pc |-> "idle", updates |-> <<>>, pending_force_updates |-> {}]

InitAnswer ==
    /\ files = NoFeeds
    /\ ready = {}
    /\ src = AnswerSources
    /\ ctl = CtlOff
    /\ img = ImgWaiting
    /\ ui = UiWaiting
    /\ trace = NoneAsked

\* Dashboard.request_force_update: the id joins pending_force_updates and the
\* request goes to the end of the file as it is at the write.
AnswerRequest(camera_id) ==
    /\ ui.pc = "idle"
    /\ trace.requested < MaxRequests
    /\ ui' = [ui EXCEPT !.pending_force_updates = @ \cup {camera_id}]
    /\ files' = AfterAppend(files, FORCE_REQUEST_FEED, "FORCE_UPDATE_" \o camera_id)
    /\ trace' = [trace EXCEPT !.requested = @ + 1, !.asked[camera_id] = @ + 1]
    /\ UNCHANGED <<ready, src, ctl, img>>

\* process_force_requests, consume_messages: path.exists() and path.open("r+"); a
\* missing file returns [] and the handler returns.
AnswerDrainOpen ==
    /\ img.pc = "idle"
    /\ img' = IF files[FORCE_REQUEST_FEED].exists THEN [img EXCEPT !.pc = "opened"] ELSE img
    /\ UNCHANGED <<files, ready, src, ctl, ui, trace>>

\* consume_messages: handle.readlines()
AnswerDrainRead ==
    /\ img.pc = "opened"
    /\ img' = [img EXCEPT !.pc = "read", !.requests = Pending(files, FORCE_REQUEST_FEED)]
    /\ UNCHANGED <<files, ready, src, ctl, ui, trace>>

\* consume_messages: handle.seek(0); handle.truncate(); return lines.  The handler
\* returns when there are none.
AnswerDrainTruncate ==
    /\ img.pc = "read"
    /\ files' = AfterConsume(files, FORCE_REQUEST_FEED)
    /\ img' = IF img.requests = <<>> THEN ImgWaiting ELSE [img EXCEPT !.pc = "loop", !.i = 1]
    /\ UNCHANGED <<ready, src, ctl, ui, trace>>

\* The image server after the request at position i.
AnswerNext(st) ==
    IF st.i < Len(st.requests) THEN [st EXCEPT !.i = st.i + 1] ELSE ImgWaiting

\* process_force_requests, the loop body for one request: skipped, or the artifact
\* is rewritten with the provider's verdict and UPDATED_<cam_id> is appended.
AnswerHandle ==
    /\ img.pc = "loop"
    /\ LET req == img.requests[img.i]
           cam_id == RequestCamId(req)
       IN  IF RequestDropped(req, src)
           THEN UNCHANGED <<files, ready, trace>>
           ELSE /\ \E status \in Verdicts : ready' \in WriteOutcomes(ready, cam_id, status)
                /\ files' = AfterAppend(files, FORCE_SERVED_FEED, "UPDATED_" \o cam_id)
                /\ trace' = [trace EXCEPT !.served[cam_id] = @ + 1]
    /\ img' = AnswerNext(img)
    /\ UNCHANGED <<src, ctl, ui>>

\* Dashboard._poll_force_served, consume_messages: path.exists() and
\* path.open("r+"); a missing file returns [] and the callback returns.
AnswerPollOpen ==
    /\ ui.pc = "idle"
    /\ ui' = IF files[FORCE_SERVED_FEED].exists THEN [ui EXCEPT !.pc = "opened"] ELSE ui
    /\ UNCHANGED <<files, ready, src, ctl, img, trace>>

\* consume_messages: handle.readlines()
AnswerPollRead ==
    /\ ui.pc = "opened"
    /\ ui' = [ui EXCEPT !.pc = "read", !.updates = Pending(files, FORCE_SERVED_FEED)]
    /\ UNCHANGED <<files, ready, src, ctl, img, trace>>

\* The camera ids of the UPDATED_ messages of a list.
UpdatedIds(updates) ==
    {DropPrefix(updates[k], Len("UPDATED_")) :
        k \in {j \in 1..Len(updates) : StartsWith(updates[j], "UPDATED_")}}

\* consume_messages: handle.seek(0); handle.truncate(); return lines, and the rest
\* of _poll_force_served: pending_force_updates.discard(cam_id) for every update.
AnswerPollTruncate ==
    /\ ui.pc = "read"
    /\ files' = AfterConsume(files, FORCE_SERVED_FEED)
    /\ ui' = [ui EXCEPT !.pc = "idle", !.updates = <<>>,
                        !.pending_force_updates = @ \ UpdatedIds(ui.updates)]
    /\ UNCHANGED <<ready, src, ctl, img, trace>>

ImageServerSteps ==
    AnswerDrainOpen \/ AnswerDrainRead \/ AnswerDrainTruncate \/ AnswerHandle

PollSteps == AnswerPollOpen \/ AnswerPollRead \/ AnswerPollTruncate

NextAnswer ==
    \/ \E c \in AnswerIds : AnswerRequest(c)
    \/ AnswerDrainOpen
    \/ AnswerDrainRead
    \/ AnswerDrainTruncate
    \/ AnswerHandle
    \/ AnswerPollOpen
    \/ AnswerPollRead
    \/ AnswerPollTruncate

\* Both loops keep running: the image server's main loop calls
\* process_force_requests every second and the clock calls _poll_force_served
\* every second.
SpecAnswer ==
    InitAnswer /\ [][NextAnswer]_vars /\ WF_vars(ImageServerSteps) /\ WF_vars(PollSteps)

(***************************************************************************)
(* Claims about force updates between the two processes (SpecAnswer).      *)
(***************************************************************************)
\* C22: every force-update request for a camera whose source image exists is
\* eventually answered: whenever CAM_a is in pending_force_updates, the dashboard
\* eventually drains UPDATED_CAM_a and CAM_a leaves pending_force_updates.
C22_ForceRequestAnswered ==
    ("CAM_a" \in ui.pending_force_updates) ~> ("CAM_a" \notin ui.pending_force_updates)

\* C23: for each camera id, the UPDATED_ messages ever appended to force_served are
\* at most as many as the FORCE_UPDATE_ messages ever appended to force_request.
C23_ServedAtMostRequested ==
    \A c \in AnswerIds : trace.served[c] <= trace.asked[c]

\* C23 witness: CAM_a was asked for twice; the second request was appended between
\* the image server's read and its truncate and is gone, the first was served, and
\* nothing is pending in either feed.
C23_Witness ==
    /\ trace.asked["CAM_a"] = 2
    /\ trace.served["CAM_a"] = 1
    /\ img.pc = "idle"
    /\ ui.pc = "idle"
    /\ Pending(files, FORCE_REQUEST_FEED) = <<>>
    /\ Pending(files, FORCE_SERVED_FEED) = <<>>

====
